---- MODULE Spec2Model ----
(***************************************************************************)
(* pracnbastats/playoffs.py: playoff series outcomes (SeriesOutcome), the  *)
(* outcome enumerator (SeriesOutcomes), the format rule                    *)
(* (SeriesFormat.choose) and the series extraction (SeriesBoxScores).      *)
(*                                                                         *)
(* A Python str is a sequence of one-character strings.  A call that       *)
(* raises is a record [ok |-> FALSE, error |-> <message kind>]; the raises *)
(* modelled here are NBAStatsValueException, told apart by their message.  *)
(***************************************************************************)
EXTENDS Integers, Sequences, FiniteSets, TLC

VARIABLES
    pc,             \* position of the caller: which call was made last
    raw,            \* the string argument of SeriesOutcome, parse or convert_string
    obj,            \* what SeriesOutcome(raw) gave: an object or an error
    season,         \* argument season of SeriesFormat.choose
    playoff_round,  \* argument playoff_round of SeriesFormat.choose
    chosen,         \* what SeriesFormat.choose or SeriesFormat.parse gave
    enum,           \* the SeriesOutcomes instances: series_format, best_of, outcomes memo
    call,           \* last outcomes() call: instance, winner, games_played;
                    \* or the two objects of a comparison; or the object and
                    \* the arguments of key_from and keys_match
    ret,            \* what the last call gave: outcomes(), a comparison,
                    \* convert_string, key_from or keys_match
    matchups,       \* team.BoxScores(...).matchups: the season's game rows
    df              \* what SeriesBoxScores._playoff_series gave

vars == <<pc, raw, obj, season, playoff_round, chosen, enum, call, ret, matchups, df>>

None == "None"

\* F(v), with v evaluated once however often F uses it
Once(v, F(_)) == CHOOSE r \in {F(x) : x \in {v}} : TRUE

(***************************************************************************)
(* Bounds of the model.                                                    *)
(***************************************************************************)
MaxRawLen == 8          \* longest raw outcome string tried (one more than 7)
MaxBadChars == 1        \* at most this many characters outside the aliases
FirstSeason == 1975     \* first start year tried for choose
SeasonSpan == 45        \* number of start years tried after FirstSeason
MaxGamesArg == 8        \* largest games_played argument tried (from -1)
MaxSeries == 16         \* most matchup groups in a season (one more than 15)
MaxProbeGames == 3      \* most games in the one group whose games vary
MaxCmpLen == 7          \* longest sequence the compared objects are built from
MaxRecords == 3         \* most game records supplied to SeriesBoxScores in any order
MaxTextLen == 7         \* longest string given to parse and convert_string
MaxSeriesGames == 7   \* games in the group of one series

(***************************************************************************)
(* TeamType                                                                *)
(***************************************************************************)
SHCA == "1"
Other == "2"   \* TeamType.OTHER.value

TeamTypeMembers == {"SHCA", "OTHER"}

\* TeamType.<name>.value
TeamTypeValue(member) == IF member = "SHCA" THEN SHCA ELSE Other

\* TeamType(c): the member whose value is c (a ValueError otherwise)
TeamType(c) ==
    CASE c = SHCA -> "SHCA"
      [] c = Other -> "OTHER"
      [] OTHER -> "ValueError"

\* str.upper on one character, over the characters the model uses
UpperChar(c) ==
    CASE c = "y" -> "Y"
      [] c = "n" -> "N"
      [] c = "h" -> "H"
      [] c = "r" -> "R"
      [] c = "x" -> "X"
      [] OTHER -> c

upper(s) == [i \in DOMAIN s |-> UpperChar(s[i])]

\* str.replace(old, new) for one-character old and new
replace(s, old, new) == [i \in DOMAIN s |-> IF s[i] = old THEN new ELSE s[i]]

\* convert_string without s.upper()
convert_string_no_upper(s) ==
    LET s1 == replace(s, "Y", SHCA)
        s2 == replace(s1, "N", Other)
        s3 == replace(s2, "H", SHCA)
        s4 == replace(s3, "R", Other)
    IN  s4

convert_string(s) ==
    LET s0 == upper(s)
        s1 == replace(s0, "Y", SHCA)
        s2 == replace(s1, "N", Other)
        s3 == replace(s2, "H", SHCA)
        s4 == replace(s3, "R", Other)
    IN  s4

(***************************************************************************)
(* str helpers                                                             *)
(***************************************************************************)
\* s.count(c)
count(s, c) == Cardinality({i \in DOMAIN s : s[i] = c})

\* s[::-1]
reversed(s) == [i \in DOMAIN s |-> s[Len(s) + 1 - i]]

\* s.index(c) giving the last position of c instead of the first
index_last(s, c) == (CHOOSE i \in DOMAIN s : s[i] = c /\ \A j \in (i + 1)..Len(s) : s[j] # c) - 1

\* s.index(c): 0-based position of the first c (c occurs in s)
index(s, c) == (CHOOSE i \in DOMAIN s : s[i] = c /\ \A j \in 1..(i - 1) : s[j] # c) - 1

\* s[:n] replaced by s: nothing is cut off
slice_all(s, n) == s

\* s[:n]
slice_to(s, n) == SubSeq(s, 1, n)

(***************************************************************************)
(* SeriesOutcome                                                           *)
(***************************************************************************)
Raise(kind) == [ok |-> FALSE, error |-> kind]

Return(v) == [ok |-> TRUE, value |-> v]

\* _valid_string without the test "winner_wins not in (3, 4)"
valid_string_any_majority(s0) ==
    LET s == convert_string(s0)
        shca_wins == count(s, SHCA)
        other_wins == count(s, Other)
        win_symbol == IF shca_wins > other_wins THEN SHCA ELSE Other
        last_index == Len(s) - index(reversed(s), win_symbol)
    IN  IF Len(s) < 3 \/ Len(s) > 7 THEN Raise("invalid number of games")
        ELSE IF Len(s) # shca_wins + other_wins THEN Raise("invalid characters")
        ELSE IF shca_wins = other_wins THEN Raise("no winner")
        ELSE Return(slice_to(s, last_index))

\* _valid_string with "elif other_wins > shca_wins" read as "else": equal
\* counts count as a win of OTHER
valid_string_draw_to_other(s0) ==
    LET s == convert_string(s0)
        shca_wins == count(s, SHCA)
        other_wins == count(s, Other)
        win_symbol == IF shca_wins > other_wins THEN SHCA ELSE Other
        winner_wins == IF shca_wins > other_wins THEN shca_wins ELSE other_wins
        last_index == Len(s) - index(reversed(s), win_symbol)
    IN  IF Len(s) < 3 \/ Len(s) > 7 THEN Raise("invalid number of games")
        ELSE IF Len(s) # shca_wins + other_wins THEN Raise("invalid characters")
        ELSE IF winner_wins \notin {3, 4} THEN Raise("not valid best of 5 or 7")
        ELSE Return(slice_to(s, last_index))

\* _valid_string without the test "len(s) > 7"
valid_string_no_upper_limit(s0) ==
    LET s == convert_string(s0)
        shca_wins == count(s, SHCA)
        other_wins == count(s, Other)
        win_symbol == IF shca_wins > other_wins THEN SHCA ELSE Other
        winner_wins == IF shca_wins > other_wins THEN shca_wins ELSE other_wins
        last_index == Len(s) - index(reversed(s), win_symbol)
    IN  IF Len(s) < 3 THEN Raise("invalid number of games")
        ELSE IF Len(s) # shca_wins + other_wins THEN Raise("invalid characters")
        ELSE IF shca_wins = other_wins THEN Raise("no winner")
        ELSE IF winner_wins \notin {3, 4} THEN Raise("not valid best of 5 or 7")
        ELSE Return(slice_to(s, last_index))

valid_string(s0) ==
    LET s == convert_string(s0)
        shca_wins == count(s, SHCA)
        other_wins == count(s, Other)
        win_symbol == IF shca_wins > other_wins THEN SHCA ELSE Other
        winner_wins == IF shca_wins > other_wins THEN shca_wins ELSE other_wins
        last_index == Len(s) - index(reversed(s), win_symbol)
    IN  IF Len(s) < 3 \/ Len(s) > 7
        THEN Raise("invalid number of games")
        ELSE IF Len(s) # shca_wins + other_wins
        THEN Raise("invalid characters")
        ELSE IF shca_wins = other_wins
        THEN Raise("no winner")
        ELSE IF winner_wins \notin {3, 4}
        THEN Raise("not valid best of 5 or 7")
        ELSE Return(slice_to(s, last_index))

\* SeriesOutcome(outcome): the object is its _outcome string
SeriesOutcome(outcome) == valid_string(outcome)

\* properties of a SeriesOutcome whose _outcome is o
games_played(o) == Len(o)

winner(o) == TeamType(o[Len(o)])

best_of(o) == IF count(o, TeamTypeValue(winner(o))) = 3 THEN 5 ELSE 7

\* game_winners with the two roles exchanged
game_winners_swapped(o) == [i \in DOMAIN o |-> TeamType(IF o[i] = SHCA THEN Other ELSE SHCA)]

game_winners(o) == [i \in DOMAIN o |-> TeamType(o[i])]

\* PlayoffSeries.outcome builds the string of a winner sequence from the
\* members' values; here for a sequence of TeamType members
from_members(ms) == SeriesOutcome([i \in DOMAIN ms |-> TeamTypeValue(ms[i])])

(***************************************************************************)
(* SeriesOutcome.key, key_from, keys_match                                 *)
(***************************************************************************)
\* winner.name, as the sequence of its characters
member_name(member) ==
    IF member = "SHCA" THEN <<"S", "H", "C", "A">> ELSE <<"O", "T", "H", "E", "R">>

\* str(n) for an integer n of at most two digits
digit(d) == (<<"0", "1", "2", "3", "4", "5", "6", "7", "8", "9">>)[d + 1]

str_nat(n) == IF n < 10 THEN <<digit(n)>> ELSE <<digit(n \div 10), digit(n % 10)>>

str(n) == IF n < 0 THEN <<"-">> \o str_nat(-n) ELSE str_nat(n)

\* ' in '
in_ == <<" ", "i", "n", " ">>

\* f'{self.winner.name} in {self.games_played}'
key(o) == member_name(winner(o)) \o in_ \o str(games_played(o))

\* key_from without the test of games_played against (3, 4, 5, 6, 7)
key_from_any_games(w, g) ==
    IF w # None /\ g # <<>> /\ g[1] # 0
    THEN Return(member_name(w) \o in_ \o str(g[1]))
    ELSE IF w # None THEN Return(member_name(w))
    ELSE IF g # <<>> /\ g[1] # 0 THEN Return(SubSeq(in_, 2, 4) \o str(g[1]))
    ELSE Raise("must pass either winner or games played")

\* key_from(winner=w, games_played=g): w is a TeamType member or None, g is
\* <<n>> for the integer n and <<>> for None; None and 0 are false
key_from(w, g) ==
    IF g # <<>> /\ g[1] # 0 /\ g[1] \notin {3, 4, 5, 6, 7}
    THEN Raise("invalid number of games played")
    ELSE IF w # None /\ g # <<>> /\ g[1] # 0
    THEN Return(member_name(w) \o in_ \o str(g[1]))
    ELSE IF w # None THEN Return(member_name(w))
    ELSE IF g # <<>> /\ g[1] # 0 THEN Return(SubSeq(in_, 2, 4) \o str(g[1]))
    ELSE Raise("must pass either winner or games played")

\* sub in s, for two strings
contains(s, sub) ==
    \E i \in 0..(Len(s) - Len(sub)) : SubSeq(s, i + 1, i + Len(sub)) = sub

\* keys_match with the test turned round: key in key_from(...)
keys_match_reversed(k, w, g) ==
    Once(key_from(w, g), LAMBDA made :
        IF ~made.ok THEN made
        ELSE Return(IF contains(made.value, k) THEN "True" ELSE "False"))

\* keys_match(key, winner=w, games_played=g); a raise of key_from goes on to
\* the caller
keys_match(k, w, g) ==
    Once(key_from(w, g), LAMBDA made :
        IF ~made.ok THEN made
        ELSE Return(IF contains(k, made.value) THEN "True" ELSE "False"))

(***************************************************************************)
(* SeriesOutcome.__lt__                                                    *)
(***************************************************************************)
\* ord() of the two outcome characters: '1' < '2'
ord(c) == IF c = SHCA THEN 49 ELSE 50

\* __lt__ with the loop over the characters run from the last game to the
\* first
lt_from_last(a, b) ==
    IF games_played(a) < games_played(b) THEN "True"
    ELSE IF games_played(a) > games_played(b) THEN "False"
    ELSE LET differ == {i \in DOMAIN a : a[i] # b[i]}
         IN  IF differ = {} THEN None
             ELSE LET i == CHOOSE k \in differ : \A j \in differ : k >= j
                  IN  IF ord(a[i]) < ord(b[i]) THEN "True" ELSE "False"

\* a < b for outcome strings a and b: "True", "False", or None when the loop
\* over the characters ends without a return
lt(a, b) ==
    IF games_played(a) < games_played(b) THEN "True"
    ELSE IF games_played(a) > games_played(b) THEN "False"
    ELSE LET differ == {i \in DOMAIN a : a[i] # b[i]}
         IN  IF differ = {} THEN None
             ELSE LET i == CHOOSE k \in differ : \A j \in differ : k <= j
                  IN  IF ord(a[i]) < ord(b[i]) THEN "True" ELSE "False"

\* a == b for two SeriesOutcome objects, given by their outcome strings
eq(a, b) == a = b

\* bool(v) for what a comparison gave
truthy(v) == v = "True"

(***************************************************************************)
(* SeriesFormat                                                            *)
(***************************************************************************)
SeriesFormat == {"BEST_OF_7", "BEST_OF_5", "FINALS_PRE_2013"}

\* SeriesFormat.<name>.value
SeriesFormatValue(name) ==
    CASE name = "BEST_OF_7" -> <<SHCA, SHCA, Other, Other, SHCA, Other, SHCA>>
      [] name = "BEST_OF_5" -> <<SHCA, SHCA, Other, Other, SHCA>>
      [] name = "FINALS_PRE_2013" -> <<SHCA, SHCA, Other, Other, Other, SHCA, SHCA>>

(***************************************************************************)
(* SeriesOutcomes                                                          *)
(***************************************************************************)
\* SeriesOutcomes(series_format): _outcomes is a dict, here a function whose
\* domain is the set of keys stored so far
SeriesOutcomes(series_format) ==
    [format |-> series_format,
     best_of |-> Len(SeriesFormatValue(series_format)),
     outcomes |-> <<>>]

need_to_win(self) == IF self.best_of = 7 THEN 4 ELSE 3

\* c*n
repeat(c, n) == [i \in 1..n |-> c]

\* _symbols with one losing symbol fewer
symbols_short(self, w) ==
    LET win_symbol == TeamTypeValue(w)
        lose_symbol == IF w = "SHCA" THEN Other ELSE SHCA
    IN  repeat(win_symbol, need_to_win(self)) \o
        repeat(lose_symbol, self.best_of - need_to_win(self) - 1)

\* _symbols with the winning and the losing symbol exchanged
symbols_swapped(self, w) ==
    LET win_symbol == TeamTypeValue(w)
        lose_symbol == IF w = "SHCA" THEN Other ELSE SHCA
    IN  repeat(lose_symbol, need_to_win(self)) \o
        repeat(win_symbol, self.best_of - need_to_win(self))

symbols(self, w) ==
    LET win_symbol == TeamTypeValue(w)
        lose_symbol == IF w = "SHCA" THEN Other ELSE SHCA
    IN  repeat(win_symbol, need_to_win(self)) \o
        repeat(lose_symbol, self.best_of - need_to_win(self))

\* the arrangements of s that end with the first character of s
permutations_win_last(s) ==
    {p \in [DOMAIN s -> {s[i] : i \in DOMAIN s}] :
        /\ \A c \in {s[i] : i \in DOMAIN s} : count(p, c) = count(s, c)
        /\ p[Len(s)] = s[1]}

\* set(permutations(s)): the distinct arrangements of the characters of s
permutations(s) ==
    {p \in [DOMAIN s -> {s[i] : i \in DOMAIN s}] :
        \A c \in {s[i] : i \in DOMAIN s} : count(p, c) = count(s, c)}

\* sorted(xs, reverse=True)
sorted_reverse(xs) ==
    Once({<<x[2], Cardinality({y \in xs : truthy(lt(x[2], y[2]))})>> : x \in xs},
         LAMBDA ranked :
            [i \in 1..Cardinality(xs) |-> (CHOOSE r \in ranked : r[2] = i - 1)[1]])

\* sorted(xs) for a collection of outcome strings, given as the set of
\* pairs <<tag, string>> (one pair per object): an object comes after the
\* objects that are less than it by __lt__
sorted(xs) ==
    Once({<<x[2], Cardinality({y \in xs : truthy(lt(y[2], x[2]))})>> : x \in xs},
         LAMBDA ranked :
            [i \in 1..Cardinality(xs) |-> (CHOOSE r \in ranked : r[2] = i - 1)[1]])

outcomes_for_winner(self, w) ==
    Once({<<outcome, SeriesOutcome(outcome)>> : outcome \in permutations(symbols(self, w))},
         LAMBDA built :
            IF \E b \in built : ~b[2].ok
            THEN Raise((CHOOSE b \in built : ~b[2].ok)[2].error)
            ELSE Return(sorted({<<b[1], b[2].value>> : b \in built})))

\* outcomes_for_winner depends on best_of and the winner only: its values,
\* kept so that they are evaluated once
OutcomesForWinner ==
    [b \in {5, 7} |-> [w \in TeamTypeMembers |-> outcomes_for_winner([best_of |-> b], w)]]

\* d[k] = v that forgets the other keys of d
setitem_alone(d, k, v) == [x \in {k} |-> v]

\* d[k] = v, for a dict d
setitem(d, k, v) == [x \in (DOMAIN d) \cup {k} |-> IF x = k THEN v ELSE d[x]]

\* the outcomes of s with at most n games
filter_games_at_most(s, n) == SelectSeq(s, LAMBDA o : games_played(o) <= n)

\* [o for o in s if o.games_played == n]
filter_games(s, n) == SelectSeq(s, LAMBDA o : games_played(o) = n)

\* memo_lookup that computes the list of a seven-game series whatever the
\* format of self
memo_lookup_any_format(self, memo, k) ==
    IF k \in DOMAIN memo
    THEN [memo |-> memo, got |-> Return(memo[k])]
    ELSE Once(OutcomesForWinner[7][k], LAMBDA computed :
            IF computed.ok
            THEN [memo |-> setitem(memo, k, computed.value), got |-> computed]
            ELSE [memo |-> memo, got |-> computed])

\* One branch pair of outcomes(): "if k in self._outcomes" reads the dict,
\* else the list is computed and stored.  Gives the dict and the list.
memo_lookup(self, memo, k) ==
    IF k \in DOMAIN memo
    THEN [memo |-> memo, got |-> Return(memo[k])]
    ELSE Once(OutcomesForWinner[self.best_of][k], LAMBDA computed :
            IF computed.ok
            THEN [memo |-> setitem(memo, k, computed.value), got |-> computed]
            ELSE [memo |-> memo, got |-> computed])

\* the branch "else" of outcomes(): no winner given
both_winners(self) ==
    Once(memo_lookup(self, self.outcomes, "SHCA"), LAMBDA shca :
        IF ~shca.got.ok THEN shca
        ELSE Once(memo_lookup(self, shca.memo, "OTHER"), LAMBDA nonshca :
                IF ~nonshca.got.ok THEN nonshca
                ELSE [memo |-> nonshca.memo,
                      got |-> Return(shca.got.value \o nonshca.got.value)]))

\* the part "if winner ... else ..." of outcomes(): w is a TeamType member
\* or None
winner_lookup(self, w) ==
    IF w # None
    THEN memo_lookup(self, self.outcomes, w)
    ELSE both_winners(self)

\* the part "if games_played:" of outcomes(), after the lookup gave found;
\* g is <<n>> for the integer n and <<>> for None; None and 0 are false
games_filter(self, found, g) ==
    IF ~found.got.ok THEN found
    ELSE IF g # <<>> /\ g[1] # 0
    THEN IF g[1] < need_to_win(self) \/ g[1] > self.best_of
         THEN [memo |-> found.memo, got |-> Raise("invalid number of games")]
         ELSE [memo |-> found.memo, got |-> Return(filter_games(found.got.value, g[1]))]
    ELSE found

\* self.outcomes(winner=w, games_played=g): the dict after the call and what
\* the call gives
outcomes(self, w, g) ==
    Once(winner_lookup(self, w), LAMBDA found : games_filter(self, found, g))

(***************************************************************************)
(* SeriesFormat.choose                                                     *)
(***************************************************************************)
MIN_PLAYOFFS_YEAR == 1983

ConferenceQuarters == 1
ConferenceSemis == 2
ConferenceFinals == 3
Finals == 4

PlayoffRound == {ConferenceQuarters, ConferenceSemis, ConferenceFinals, Finals}

\* parse without the call of convert_string
parse_verbatim(s) ==
    IF Len(s) \notin {5, 7}
    THEN Raise("series must be best of 5 or 7 games")
    ELSE IF \E name \in SeriesFormat : SeriesFormatValue(name) = s
         THEN Return(CHOOSE name \in SeriesFormat : SeriesFormatValue(name) = s)
         ELSE Raise("ValueError")

\* SeriesFormat.parse(s); cls(s) is the member whose value is s and raises
\* the ValueError of Enum when there is none
parse(s) ==
    IF Len(s) \notin {5, 7}
    THEN Raise("series must be best of 5 or 7 games")
    ELSE LET c == convert_string(s)
         IN  IF \E name \in SeriesFormat : SeriesFormatValue(name) = c
             THEN Return(CHOOSE name \in SeriesFormat : SeriesFormatValue(name) = c)
             ELSE Raise("ValueError")

\* choose with the season 2002 still in the best-of-5 first round
choose_2002_inclusive(year, round) ==
    IF year < MIN_PLAYOFFS_YEAR
    THEN Raise("prior to modern NBA playoff formats")
    ELSE IF year <= 2002 /\ round = ConferenceQuarters
    THEN Return("BEST_OF_5")
    ELSE IF round = Finals
    THEN IF year < 2013 THEN Return("FINALS_PRE_2013") ELSE Return("BEST_OF_7")
    ELSE Return("BEST_OF_7")

choose(year, round) ==
    IF year < MIN_PLAYOFFS_YEAR
    THEN Raise("prior to modern NBA playoff formats")
    ELSE IF year < 2002 /\ round = ConferenceQuarters
    THEN Return("BEST_OF_5")
    ELSE IF round = Finals
    THEN IF year < 2013 THEN Return("FINALS_PRE_2013") ELSE Return("BEST_OF_7")
    ELSE Return("BEST_OF_7")

(***************************************************************************)
(* SeriesBoxScores                                                         *)
(*                                                                         *)
(* A DataFrame is the sequence of its rows, a row a record of its          *)
(* columns; row i of the sequence has index i - 1.  Team abbreviations are *)
(* numbers, ordered as the abbreviations are.                              *)
(***************************************************************************)
\* sorted(list(abbrs)), then the two popped and joined with the season
matchup_id(season_year, abbrs) ==
    LET abbr1 == CHOOSE a \in abbrs : \A b \in abbrs : a <= b
        abbr2 == CHOOSE a \in abbrs \ {abbr1} : \A b \in abbrs \ {abbr1} : a <= b
    IN  <<abbr1, abbr2, season_year>>

\* _create_matchup_id with the home team first instead of the sorted pair
create_matchup_id_home_first(row) == <<row.team_abbr_h, row.team_abbr_r, row.season>>

create_matchup_id(row) == matchup_id(row.season, {row.team_abbr_h, row.team_abbr_r})

\* .sort_values(by=['date']).reset_index(drop=True) of the rows in the set
\* S; the rows carry different dates
sort_date(S) ==
    Once({<<x, Cardinality({y \in S : y.date < x.date})>> : x \in S},
         LAMBDA ranked :
            [i \in 1..Cardinality(S) |-> (CHOOSE r \in ranked : r[2] = i - 1)[1]])

\* _format_matchups without the sort
format_matchups_unsorted(rows) ==
    [i \in DOMAIN rows |-> [matchup_id |-> create_matchup_id(rows[i])] @@ rows[i]]

\* _format_matchups(df): the column matchup_id is added, then the rows are
\* put in the order of their dates
format_matchups(rows) ==
    sort_date({[matchup_id |-> create_matchup_id(rows[i])] @@ rows[i] : i \in DOMAIN rows})

\* the rows of one group of matchups.groupby(['matchup_id']), in their order
group_rows(rows, id) == SelectSeq(rows, LAMBDA row : row.matchup_id = id)

\* g['date'].min()
min_date(g) == CHOOSE d \in {g[i].date : i \in DOMAIN g} : \A j \in DOMAIN g : d <= g[j].date

get_series_info(g) ==
    LET home_teams == [i \in DOMAIN g |-> g[i].team_abbr_h]
        winners == [i \in DOMAIN g |-> g[i].winner]
        series_winner == winners[Len(winners)]
        winner_won == count(winners, series_winner)
    IN  [best_of |-> IF winner_won = 3 THEN 5 ELSE 7,
         games_played |-> Len(g),
         series_hca |-> home_teams[1],
         series_non_hca |-> g[1].team_abbr_r,
         series_winner |-> series_winner,
         game_home_teams |-> home_teams,
         game_winners |-> winners,
         first_game_date |-> min_date(g),
         game_ids |-> [i \in DOMAIN g |-> g[i].game_id]]

\* order of two group keys
id_less(a, b) == a[1] < b[1] \/ (a[1] = b[1] /\ a[2] < b[2])

\* .sort_values(by=['first_game_date']) of the rows in the set S.  The sort
\* is not a stable one: rows of equal date come out in an order the caller
\* does not choose, here by key, ascending or descending as ties says.
before(x, y, ties) ==
    \/ x.first_game_date < y.first_game_date
    \/ /\ x.first_game_date = y.first_game_date
       /\ \/ (ties = "asc" /\ id_less(x.matchup_id, y.matchup_id))
          \/ (ties = "desc" /\ id_less(y.matchup_id, x.matchup_id))

sort_values(S, ties) ==
    Once({<<x, Cardinality({y \in S : before(y, x, ties)})>> : x \in S},
         LAMBDA ranked :
            [i \in 1..Cardinality(S) |-> (CHOOSE r \in ranked : r[2] = i - 1)[1]])

\* the four assignments with index 8 still in the first round
round_at_8_inclusive(idx) ==
    IF idx <= 8 THEN ConferenceQuarters
    ELSE IF idx > 8 /\ idx < 12 THEN ConferenceSemis
    ELSE IF idx >= 12 /\ idx < 14 THEN ConferenceFinals
    ELSE Finals

\* the value the four df.loc[...] assignments leave at an index that one of
\* them selects
round_at(idx) ==
    IF idx < 8 THEN ConferenceQuarters
    ELSE IF idx >= 8 /\ idx < 12 THEN ConferenceSemis
    ELSE IF idx >= 12 /\ idx < 14 THEN ConferenceFinals
    ELSE Finals

\* an index none of the four assignments selects keeps the NaN the first
\* assignment filled the new column with
is_nan(idx) == ~(idx < 8 \/ (idx >= 8 /\ idx < 12) \/ (idx >= 12 /\ idx < 14) \/ idx = 14)

\* df['playoff_round'].astype(int) raises on a NaN
playoff_rounds(rows) ==
    IF \E i \in DOMAIN rows : is_nan(i - 1)
    THEN Raise("cannot convert NaN to integer")
    ELSE Return([i \in DOMAIN rows |-> [row |-> rows[i], playoff_round |-> round_at(i - 1)]])

playoff_series(start_year, rows, ties) ==
    LET ids == {rows[i].matchup_id : i \in DOMAIN rows}
        infos == {[matchup_id |-> id] @@ get_series_info(group_rows(rows, id)) : id \in ids}
    IN  Once(playoff_rounds(sort_values(infos, ties)), LAMBDA rounds :
            IF ~rounds.ok THEN rounds
            ELSE Return([i \in DOMAIN rounds.value |->
                    [season |-> start_year,
                     playoff_round |-> rounds.value[i].playoff_round,
                     best_of |-> rounds.value[i].row.best_of,
                     games_played |-> rounds.value[i].row.games_played,
                     series_hca |-> rounds.value[i].row.series_hca,
                     series_non_hca |-> rounds.value[i].row.series_non_hca,
                     series_winner |-> rounds.value[i].row.series_winner,
                     game_home_teams |-> rounds.value[i].row.game_home_teams,
                     game_winners |-> rounds.value[i].row.game_winners,
                     game_ids |-> rounds.value[i].row.game_ids]]))

(***************************************************************************)
(* Inputs                                                                  *)
(***************************************************************************)
\* spellings of the two roles accepted by convert_string, and one that is not
ShcaSpellings == {"1", "y", "H"}
OtherSpellings == {"2", "N", "r"}
BadChar == "x"

\* all sequences over S of length at most n
RECURSIVE SeqsUpTo(_, _)
SeqsUpTo(S, n) ==
    IF n = 0 THEN {<<>>}
    ELSE LET shorter == SeqsUpTo(S, n - 1)
         IN  shorter \cup {Append(s, c) : s \in {t \in shorter : Len(t) = n - 1}, c \in S}

\* the raw strings tried: every win sequence of up to MaxRawLen games, each
\* role written in one spelling, with up to MaxBadChars games replaced by a
\* character that is no spelling of a role
RawInputs ==
    {[i \in DOMAIN b |-> IF i \in bad THEN BadChar
                         ELSE IF b[i] = SHCA THEN a ELSE o] :
        b \in SeqsUpTo({SHCA, Other}, MaxRawLen),
        a \in ShcaSpellings, o \in OtherSpellings,
        bad \in {B \in SUBSET (1..MaxRawLen) : Cardinality(B) <= MaxBadChars}}

Seasons == FirstSeason..(FirstSeason + SeasonSpan)

(***************************************************************************)
(* SeriesOutcome(raw)                                                      *)
(***************************************************************************)
InitCodec ==
    /\ pc = "codec"
    /\ raw \in RawInputs
    /\ obj = None /\ season = 0 /\ playoff_round = 0 /\ chosen = None
    /\ enum = <<>> /\ call = None /\ ret = None /\ matchups = <<>> /\ df = None

Construct ==
    /\ pc = "codec"
    /\ obj' = SeriesOutcome(raw)
    /\ pc' = "constructed"
    /\ UNCHANGED <<raw, season, playoff_round, chosen, enum, call, ret, matchups, df>>

SpecCodec == InitCodec /\ [][Construct]_vars

(***************************************************************************)
(* SeriesFormat.choose(season=, playoff_round=)                            *)
(***************************************************************************)
InitChoose ==
    /\ pc = "choose"
    /\ season \in Seasons
    /\ playoff_round \in PlayoffRound
    /\ chosen = None /\ raw = <<>> /\ obj = None
    /\ enum = <<>> /\ call = None /\ ret = None /\ matchups = <<>> /\ df = None

Choose ==
    /\ pc = "choose"
    /\ chosen' = choose(season, playoff_round)
    /\ pc' = "chose"
    /\ UNCHANGED <<raw, obj, season, playoff_round, enum, call, ret, matchups, df>>

SpecChoose == InitChoose /\ [][Choose]_vars

(***************************************************************************)
(* SeriesOutcomes(series_format).outcomes(winner=, games_played=)          *)
(***************************************************************************)
Instances == {1, 2}

WinnerArgs == TeamTypeMembers \cup {None}

GamesArgs == {<<n>> : n \in -1..MaxGamesArg} \cup {<<>>}

InitEnum ==
    /\ pc = "enum"
    /\ enum \in [Instances -> {SeriesOutcomes(f) : f \in SeriesFormat}]
    /\ call = None /\ ret = None
    /\ raw = <<>> /\ obj = None /\ season = 0 /\ playoff_round = 0 /\ chosen = None
    /\ matchups = <<>> /\ df = None

\* one call enum[i].outcomes(winner=w, games_played=g), for any g
Outcomes(i, w) ==
    /\ pc \in {"enum", "called"}
    /\ \E found \in {winner_lookup(enum[i], w)} :
       \E g \in GamesArgs :
       \E r \in {games_filter(enum[i], found, g)} :
          /\ enum' = [enum EXCEPT ![i].outcomes = r.memo]
          /\ ret' = r.got
          /\ call' = [instance |-> i, winner |-> w, games_played |-> g]
    /\ pc' = "called"
    /\ UNCHANGED <<raw, obj, season, playoff_round, chosen, matchups, df>>

NextEnum == \E i \in Instances, w \in WinnerArgs : Outcomes(i, w)

SpecEnum == InitEnum /\ [][NextEnum]_vars

(***************************************************************************)
(* SeriesBoxScores._playoff_series(season, matchups)                       *)
(*                                                                         *)
(* The seasons tried have n matchup groups.  Group k is played by teams    *)
(* 2k-1 and 2k and starts on day n+1-k, the groups in the reverse order of *)
(* their keys; each is a four-game sweep by the team at home in game 1,    *)
(* but for one group, which starts before all, with the last, or after     *)
(* all, and whose games are won in every way.  Game j of a group that      *)
(* starts on day f has date 10f + j.                                       *)
(***************************************************************************)
HomePattern == <<"h", "h", "r", "r", "h", "r", "h">>

Sweep == <<"h", "h", "h", "h">>

ProbeWinners == SeqsUpTo({"h", "r"}, MaxProbeGames) \ {<<>>}

GroupOf(n, k, p, d, w) ==
    [key |-> k,
     first |-> IF k = p THEN d ELSE n + 1 - k,
     hca |-> IF k % 2 = 1 THEN 2 * k - 1 ELSE 2 * k,
     non |-> IF k % 2 = 1 THEN 2 * k ELSE 2 * k - 1,
     winners |-> IF k = p THEN w ELSE Sweep]

GameRow(year, G, j) ==
    LET h == IF HomePattern[j] = "h" THEN G.hca ELSE G.non
        r == IF HomePattern[j] = "h" THEN G.non ELSE G.hca
        row == [season |-> year, date |-> 10 * G.first + j, game_id |-> 10 * G.key + j,
                team_abbr_h |-> h, team_abbr_r |-> r,
                winner |-> IF G.winners[j] = "h" THEN G.hca ELSE G.non]
    IN  [matchup_id |-> create_matchup_id(row)] @@ row

\* game j of the groups in C, by key
RECURSIVE RowsOfGame(_, _, _)
RowsOfGame(year, C, j) ==
    IF C = {} THEN <<>>
    ELSE Once(CHOOSE G \in C : \A X \in C : G.key <= X.key, LAMBDA G :
            (IF j \in DOMAIN G.winners THEN <<GameRow(year, G, j)>> ELSE <<>>)
            \o RowsOfGame(year, C \ {G}, j))

\* the game rows of the groups in Gs in the order of their dates, as
\* _format_matchups leaves them: the groups that start on day f, game by
\* game, then those of the later days
RECURSIVE FormattedRows(_, _, _, _)
FormattedRows(year, Gs, f, last) ==
    IF f > last THEN <<>>
    ELSE Once({G \in Gs : G.first = f}, LAMBDA C :
            IF C = {} THEN <<>>
            ELSE RowsOfGame(year, C, 1) \o RowsOfGame(year, C, 2) \o RowsOfGame(year, C, 3)
                 \o RowsOfGame(year, C, 4) \o RowsOfGame(year, C, 5) \o RowsOfGame(year, C, 6)
                 \o RowsOfGame(year, C, 7))
         \o FormattedRows(year, Gs, f + 1, last)

SeasonRows(year, n, p, d, w) ==
    Once({GroupOf(n, k, p, d, w) : k \in 1..n}, LAMBDA Gs :
        FormattedRows(year, Gs, 0, n + 1))

InitSeason ==
    /\ pc = "season"
    /\ season = 2016
    /\ \E n \in 1..MaxSeries : \E p \in 1..n : \E d \in {0, 1, n + 1} : \E w \in ProbeWinners :
          matchups = SeasonRows(season, n, p, d, w)
    /\ df = None
    /\ raw = <<>> /\ obj = None /\ playoff_round = 0 /\ chosen = None
    /\ enum = <<>> /\ call = None /\ ret = None

PlayoffSeries(ties) ==
    /\ pc = "season"
    /\ df' = playoff_series(season, matchups, ties)
    /\ pc' = "extracted"
    /\ UNCHANGED <<raw, obj, season, playoff_round, chosen, enum, call, ret, matchups>>

NextSeason == \E ties \in {"asc", "desc"} : PlayoffSeries(ties)

SpecSeason == InitSeason /\ [][NextSeason]_vars

(***************************************************************************)
(* SeriesBoxScores(season): the game records as supplied, in any order     *)
(***************************************************************************)
\* the two pairings of the records: they share team 1
PairTeams == <<(<<1, 2>>), (<<1, 3>>)>>

\* game j by date: which pairing plays, which of its teams is at home, which
\* of its teams wins
GameChoices == [pair : {1, 2}, home : {1, 2}, win : {1, 2}]

Record(year, j, c) ==
    [season |-> year, date |-> 10 + j, game_id |-> 100 + j,
     team_abbr_h |-> PairTeams[c.pair][c.home],
     team_abbr_r |-> PairTeams[c.pair][3 - c.home],
     winner |-> PairTeams[c.pair][c.win]]

InitRecords ==
    /\ pc = "records"
    /\ season = 2016
    /\ \E k \in 1..MaxRecords : \E cs \in [1..k -> GameChoices] :
       \E order \in Permutations(1..k) :
          matchups = [i \in 1..k |-> Record(season, order[i], cs[order[i]])]
    /\ df = None
    /\ raw = <<>> /\ obj = None /\ playoff_round = 0 /\ chosen = None
    /\ enum = <<>> /\ call = None /\ ret = None

\* SeriesBoxScores.__init__: the rows are formatted, then the series taken
SeriesBoxScoresInit(ties) ==
    /\ pc = "records"
    /\ df' = playoff_series(season, format_matchups(matchups), ties)
    /\ pc' = "extracted"
    /\ UNCHANGED <<raw, obj, season, playoff_round, chosen, enum, call, ret, matchups>>

NextRecords == \E ties \in {"asc", "desc"} : SeriesBoxScoresInit(ties)

SpecRecords == InitRecords /\ [][NextRecords]_vars


(***************************************************************************)
(* SeriesFormat.parse(raw) and TeamType.convert_string(raw)                *)
(***************************************************************************)
\* the spellings of the two roles, pair by pair
Spellings == {<<"1", "2">>, <<"y", "n">>, <<"Y", "N">>, <<"h", "r">>, <<"H", "R">>}

\* the strings tried: every sequence of the two roles of up to MaxTextLen
\* characters in each pair of spellings, with up to MaxBadChars characters
\* replaced by one that is no spelling of a role
TextInputs ==
    {[i \in DOMAIN b |-> IF i \in bad THEN BadChar
                         ELSE IF b[i] = SHCA THEN sp[1] ELSE sp[2]] :
        b \in SeqsUpTo({SHCA, Other}, MaxTextLen),
        sp \in Spellings,
        bad \in {B \in SUBSET (1..MaxTextLen) : Cardinality(B) <= MaxBadChars}}

InitText ==
    /\ pc = "text"
    /\ raw \in TextInputs
    /\ chosen = None /\ ret = None
    /\ obj = None /\ season = 0 /\ playoff_round = 0
    /\ enum = <<>> /\ call = None /\ matchups = <<>> /\ df = None

Parse ==
    /\ pc = "text"
    /\ chosen' = parse(raw)
    /\ pc' = "parsed"
    /\ UNCHANGED <<raw, obj, season, playoff_round, enum, call, ret, matchups, df>>

ConvertString ==
    /\ pc = "text"
    /\ ret' = convert_string(raw)
    /\ pc' = "converted"
    /\ UNCHANGED <<raw, obj, season, playoff_round, chosen, enum, call, matchups, df>>

NextText == Parse \/ ConvertString

SpecText == InitText /\ [][NextText]_vars



(* a < b and a == b for two SeriesOutcome objects                          *)
(***************************************************************************)
\* the outcome strings of the objects the constructor builds from sequences
\* of up to MaxCmpLen games
Objects ==
    {SeriesOutcome(s).value :
        s \in {r \in SeqsUpTo({SHCA, Other}, MaxCmpLen) : SeriesOutcome(r).ok}}

InitOrder ==
    /\ pc = "order"
    /\ \E a, b \in Objects : call = [self |-> a, other |-> b]
    /\ ret = None
    /\ raw = <<>> /\ obj = None /\ season = 0 /\ playoff_round = 0 /\ chosen = None
    /\ enum = <<>> /\ matchups = <<>> /\ df = None

\* self < other, other < self and self == other are evaluated
Compare ==
    /\ pc = "order"
    /\ ret' = [lt |-> lt(call.self, call.other),
               gt |-> lt(call.other, call.self),
               eq |-> eq(call.self, call.other)]
    /\ pc' = "compared"
    /\ UNCHANGED <<raw, obj, season, playoff_round, chosen, enum, call, matchups, df>>

SpecOrder == InitOrder /\ [][Compare]_vars


(***************************************************************************)
(* key_from(winner, games_played) and keys_match(o.key, winner,            *)
(* games_played) for an object o                                           *)
(***************************************************************************)
InitKey ==
    /\ pc = "key"
    /\ \E o \in Objects : \E w \in WinnerArgs : \E g \in GamesArgs :
          call = [self |-> o, winner |-> w, games_played |-> g]
    /\ ret = None
    /\ raw = <<>> /\ obj = None /\ season = 0 /\ playoff_round = 0 /\ chosen = None
    /\ enum = <<>> /\ matchups = <<>> /\ df = None

KeyFrom ==
    /\ pc = "key"
    /\ ret' = key_from(call.winner, call.games_played)
    /\ pc' = "key_from"
    /\ UNCHANGED <<raw, obj, season, playoff_round, chosen, enum, call, matchups, df>>

KeysMatch ==
    /\ pc = "key"
    /\ ret' = keys_match(key(call.self), call.winner, call.games_played)
    /\ pc' = "keys_match"
    /\ UNCHANGED <<raw, obj, season, playoff_round, chosen, enum, call, matchups, df>>

NextKey == KeyFrom \/ KeysMatch

SpecKey == InitKey /\ [][NextKey]_vars

(***************************************************************************)
(* One SeriesOutcomes instance shared by concurrent callers of outcomes()  *)
(*                                                                         *)
(* outcomes() takes no lock.  Each caller runs the statements of outcomes()*)
(* in order, one statement a step, and the steps of the callers interleave *)
(* freely.  The locals of a caller are in call[c]: the winners it has still*)
(* to look up (todo), the list computed and not yet stored (outcomes), the *)
(* lists looked up so far (found) and the statement it is at.              *)
(***************************************************************************)
Callers == {1, 2}

\* the winners outcomes(winner=w) looks up, in the order of the code
lookups(w) == IF w = None THEN <<"SHCA", "OTHER">> ELSE <<w>>

InitShared ==
    /\ pc = "shared"
    /\ \E f \in SeriesFormat : enum = <<SeriesOutcomes(f)>>
    /\ call \in [Callers -> {[winner |-> w, games_played |-> <<>>, at |-> "check",
                               todo |-> lookups(w), outcomes |-> <<>>, found |-> <<>>] :
                              w \in WinnerArgs}]
    /\ ret = [c \in Callers |-> None]
    /\ raw = <<>> /\ obj = None /\ season = 0 /\ playoff_round = 0 /\ chosen = None
    /\ matchups = <<>> /\ df = None

\* "if ... in self._outcomes" that asks whether the dict holds anything
in_memo_any(self, k) == DOMAIN self.outcomes # {}

\* "winner in self._outcomes", "TeamType.SHCA in self._outcomes"
in_memo(self, k) == k \in DOMAIN self.outcomes

\* self._outcomes[k]
getitem(self, k) ==
    IF k \in DOMAIN self.outcomes THEN Return(self.outcomes[k]) ELSE Raise("KeyError")

\* the caller goes on with list as the list of its current winner
looked_up(c, list) ==
    Once(Tail(call[c].todo), LAMBDA rest :
        [call EXCEPT ![c].todo = rest,
                     ![c].found = Append(@, list),
                     ![c].outcomes = <<>>,
                     ![c].at = IF rest = <<>> THEN "filter" ELSE "check"])

\* the call of caller c ends with the exception r
Fail(c, r) ==
    /\ ret' = [ret EXCEPT ![c] = r]
    /\ call' = [call EXCEPT ![c].at = "done"]

\* the test whether the winner is a key of the memo
Check(c) ==
    /\ pc = "shared" /\ call[c].at = "check"
    /\ call' = [call EXCEPT ![c].at =
                   IF in_memo(enum[1], Head(call[c].todo)) THEN "read" ELSE "compute"]
    /\ UNCHANGED <<pc, enum, ret, raw, obj, season, playoff_round, chosen, matchups, df>>

\* outcomes = self._outcomes[winner]
Read(c) ==
    /\ pc = "shared" /\ call[c].at = "read"
    /\ \E r \in {getitem(enum[1], Head(call[c].todo))} :
          IF r.ok THEN call' = looked_up(c, r.value) /\ ret' = ret
          ELSE Fail(c, r)
    /\ UNCHANGED <<pc, enum, raw, obj, season, playoff_round, chosen, matchups, df>>

\* outcomes = self._outcomes_for_winner(winner)
Compute(c) ==
    /\ pc = "shared" /\ call[c].at = "compute"
    /\ \E r \in {OutcomesForWinner[enum[1].best_of][Head(call[c].todo)]} :
          IF r.ok
          THEN call' = [call EXCEPT ![c].outcomes = r.value, ![c].at = "store"] /\ ret' = ret
          ELSE Fail(c, r)
    /\ UNCHANGED <<pc, enum, raw, obj, season, playoff_round, chosen, matchups, df>>

\* self._outcomes[winner] = outcomes
Store(c) ==
    /\ pc = "shared" /\ call[c].at = "store"
    /\ enum' = [enum EXCEPT ![1].outcomes = setitem(@, Head(call[c].todo), call[c].outcomes)]
    /\ call' = looked_up(c, call[c].outcomes)
    /\ UNCHANGED <<pc, ret, raw, obj, season, playoff_round, chosen, matchups, df>>

\* outcomes = shca_outcomes + nonshca_outcomes when no winner was given, then
\* "if games_played:" to the return; the argument games_played is read only
\* here and is drawn here
Filter(c) ==
    /\ pc = "shared" /\ call[c].at = "filter"
    /\ \E g \in GamesArgs :
       \E list \in {IF Len(call[c].found) = 2
                    THEN call[c].found[1] \o call[c].found[2]
                    ELSE call[c].found[1]} :
       \E r \in {games_filter(enum[1], [memo |-> enum[1].outcomes, got |-> Return(list)], g)} :
          /\ ret' = [ret EXCEPT ![c] = r.got]
          /\ call' = [call EXCEPT ![c].games_played = g, ![c].at = "done"]
    /\ UNCHANGED <<pc, enum, raw, obj, season, playoff_round, chosen, matchups, df>>

NextShared == \E c \in Callers : Check(c) \/ Read(c) \/ Compute(c) \/ Store(c) \/ Filter(c)

SpecShared == InitShared /\ [][NextShared]_vars


(***************************************************************************)
(* One series: _get_series_info on its group, then PlayoffSeries.outcome   *)
(***************************************************************************)
\* PlayoffSeries.outcome with each game compared to the series winner
series_outcome_by_winner(self) ==
    SeriesOutcome([i \in DOMAIN self.game_winners |->
                      IF self.game_winners[i] = self.series_winner THEN SHCA ELSE Other])

\* PlayoffSeries.outcome, for the series with the fields of self
series_outcome(self) ==
    SeriesOutcome([i \in DOMAIN self.game_winners |->
                      IF self.game_winners[i] = self.series_hca THEN SHCA ELSE Other])

\* the group of one pairing: up to MaxSeriesGames games by date, each with
\* either team at home and either team winning
InitSeries ==
    /\ pc = "series"
    /\ season = 2016
    /\ \E n \in 1..MaxSeriesGames :
       \E home \in [1..n -> {1, 2}] : \E win \in [1..n -> {1, 2}] :
          matchups = [j \in 1..n |->
                         Record(season, j, [pair |-> 1, home |-> home[j], win |-> win[j]])]
    /\ df = None /\ obj = None
    /\ raw = <<>> /\ playoff_round = 0 /\ chosen = None
    /\ enum = <<>> /\ call = None /\ ret = None

\* _get_series_info(g) on the group
GetSeriesInfo ==
    /\ pc = "series"
    /\ df' = get_series_info(matchups)
    /\ pc' = "summarised"
    /\ UNCHANGED <<raw, obj, season, playoff_round, chosen, enum, call, ret, matchups>>

\* .outcome of the PlayoffSeries with the fields of the summary
SeriesOutcomeOf ==
    /\ pc = "summarised"
    /\ obj' = series_outcome(df)
    /\ pc' = "outcome"
    /\ UNCHANGED <<raw, season, playoff_round, chosen, enum, call, ret, matchups, df>>

NextSeries == GetSeriesInfo \/ SeriesOutcomeOf

SpecSeries == InitSeries /\ [][NextSeries]_vars

(***************************************************************************)
(* The whole program: any one of the calls above                           *)
(***************************************************************************)
Init == InitCodec \/ InitChoose \/ InitEnum \/ InitSeason \/ InitOrder \/ InitRecords \/ InitText \/ InitKey \/ InitShared \/ InitSeries

Next == Construct \/ Choose \/ NextEnum \/ NextSeason \/ Compare \/ NextRecords \/ NextText \/ NextKey \/ NextShared \/ NextSeries

Spec == Init /\ [][Next]_vars

\* the SeriesOutcome objects: those the constructor builds from raw strings
\* and those an enumerator returns
InitOutcome == InitCodec \/ InitEnum

NextOutcome == Construct \/ NextEnum

SpecOutcome == InitOutcome /\ [][NextOutcome]_vars

(***************************************************************************)
(* Properties                                                              *)
(***************************************************************************)
\* every character of s is one of the two role symbols
AllRoles(s) == \A i \in DOMAIN s : s[i] \in {SHCA, Other}

\* the symbol with more occurrences in s (the counts differ)
Majority(s) == IF count(s, SHCA) > count(s, Other) THEN SHCA ELSE Other

Minority(s) == IF Majority(s) = SHCA THEN Other ELSE SHCA

WellFormed(o) ==
    /\ AllRoles(o)
    /\ count(o, Majority(o)) \in {3, 4}
    /\ count(o, Majority(o)) > count(o, Minority(o))
    /\ Len(o) >= 3 /\ Len(o) <= 7
    /\ o[Len(o)] = Majority(o)
    /\ winner(o) = TeamType(Majority(o))

\* C1: every SeriesOutcome that exists, built from any raw string or
\* returned by outcomes() or kept in an enumerator's dict, has 3 or 4 wins of
\* its winning symbol, more than of the other symbol, 3 to 7 games, and its
\* winning symbol last.
C1_OutcomeWellFormed ==
    /\ (pc = "constructed" /\ obj.ok) => WellFormed(obj.value)
    /\ (pc = "called" /\ ret.ok) => \A i \in DOMAIN ret.value : WellFormed(ret.value[i])
    /\ pc = "called" =>
          \A e \in DOMAIN enum : \A k \in DOMAIN enum[e].outcomes :
             \A i \in DOMAIN enum[e].outcomes[k] : WellFormed(enum[e].outcomes[k][i])

\* C1 witness: an object built from a raw string written with aliases, which
\* lost trailing games
C1_Witness ==
    /\ pc = "constructed" /\ obj.ok
    /\ raw # convert_string(raw)
    /\ Len(obj.value) < Len(raw)

\* the length of the shortest prefix of s in which a side has t wins, 0 if
\* there is none
ClinchLen(s, t) ==
    LET reached == {c \in DOMAIN s : \E sym \in {SHCA, Other} : count(SubSeq(s, 1, c), sym) = t}
    IN  IF reached = {} THEN 0 ELSE CHOOSE c \in reached : \A x \in reached : c <= x

\* C2 as claimed: a raw string made of a prefix p that ends at the game in
\* which a side first reaches the win threshold (3 or 4), followed by more
\* games, gives the outcome p.
C2_TruncatesAtClinch ==
    pc = "constructed" =>
       \A t \in {3, 4} :
          LET s == convert_string(raw)
              c == ClinchLen(s, t)
          IN  (AllRoles(s) /\ c > 0 /\ c < Len(s)) => (obj.ok /\ obj.value = SubSeq(s, 1, c))

\* C2 amended: a raw string of at most 7 games made of a prefix p that ends
\* at the game in which a side first reaches 3 or 4 wins, followed only by
\* games the other side wins that leave it with fewer wins, gives the
\* outcome p.
C2_TruncatesTrailingLosses ==
    pc = "constructed" =>
       \A t \in {3, 4} :
          LET s == convert_string(raw)
              c == ClinchLen(s, t)
          IN  (/\ AllRoles(s) /\ Len(s) <= 7 /\ c > 0
               /\ \A i \in (c + 1)..Len(s) : s[i] # s[c]
               /\ count(s, IF s[c] = SHCA THEN Other ELSE SHCA) < t)
              => (obj.ok /\ obj.value = SubSeq(s, 1, c))

\* C2 witness: a series decided in 5 games with two more games recorded for
\* the loser, stored as its first 5 games
C2_Witness ==
    /\ pc = "constructed" /\ obj.ok
    /\ Len(raw) = 7 /\ Len(obj.value) = 5
    /\ ClinchLen(convert_string(raw), 4) = 5

\* C9 as claimed: equally many wins of the two roles fail with "no winner";
\* a majority count other than 3 or 4 fails with an invalid game count.
C9_NoWinnerOrInvalidCount ==
    (pc = "constructed" /\ AllRoles(convert_string(raw))) =>
       LET s == convert_string(raw)
       IN  /\ count(s, SHCA) = count(s, Other) => (~obj.ok /\ obj.error = "no winner")
           /\ (count(s, SHCA) # count(s, Other) /\ count(s, Majority(s)) \notin {3, 4})
                 => (~obj.ok /\ obj.error \in {"invalid number of games",
                                              "not valid best of 5 or 7"})

\* C9 amended: construction fails whenever the two roles have equally many
\* wins or the majority's count is not 3 or 4.  The failure is "no winner"
\* for equal counts in a string of 3 to 7 games, and "not valid best of 5 or
\* 7" for a majority count other than 3 or 4 in such a string; a string of
\* fewer than 3 or more than 7 games fails with "invalid number of games"
\* whatever its counts.
C9_FailureKinds ==
    (pc = "constructed" /\ AllRoles(convert_string(raw))) =>
       LET s == convert_string(raw)
           inrange == Len(s) >= 3 /\ Len(s) <= 7
       IN  /\ (count(s, SHCA) = count(s, Other) /\ inrange)
                 => (~obj.ok /\ obj.error = "no winner")
           /\ (count(s, SHCA) # count(s, Other) /\ count(s, Majority(s)) \notin {3, 4}
               /\ inrange)
                 => (~obj.ok /\ obj.error = "not valid best of 5 or 7")
           /\ ~inrange => (~obj.ok /\ obj.error = "invalid number of games")
           /\ (count(s, SHCA) = count(s, Other) \/ count(s, Majority(s)) \notin {3, 4})
                 => ~obj.ok

\* C9 witness: a drawn series of four games, refused for having no winner
C9_Witness ==
    /\ pc = "constructed" /\ ~obj.ok /\ obj.error = "no winner"
    /\ Len(raw) = 4 /\ count(convert_string(raw), SHCA) = 2

\* C10 as claimed: a raw string of more than 7 games is not refused for its
\* length, and it is accepted when the side with more wins has 3 or 4.
C10_LongNotRejectedForLength ==
    (pc = "constructed" /\ Len(raw) > 7) =>
       LET s == convert_string(raw)
       IN  /\ ~(~obj.ok /\ obj.error = "invalid number of games")
           /\ (count(s, SHCA) # count(s, Other) /\ count(s, Majority(s)) \in {3, 4})
                 => obj.ok

\* C10 amended: every raw string of more than 7 games is refused with
\* "invalid number of games", before any win is counted; what is accepted
\* has at most 7 games.
C10_LongRejected ==
    pc = "constructed" =>
       /\ Len(raw) > 7 => (~obj.ok /\ obj.error = "invalid number of games")
       /\ obj.ok => Len(raw) <= 7

\* C10 witness: eight games between the two roles, refused
C10_Witness ==
    /\ pc = "constructed" /\ Len(raw) = 8 /\ AllRoles(convert_string(raw)) /\ ~obj.ok

\* the enumerator the last outcomes() call was made on
Called == enum[call.instance]

\* C3 as claimed: with no games_played, outcomes(winner=w) has 20 outcomes
\* for BEST_OF_7 and 6 for BEST_OF_5, and outcomes() has 40 and 12.
C3_TwentyAndSix ==
    (pc = "called" /\ call.games_played = <<>> /\ Called.format \in {"BEST_OF_7", "BEST_OF_5"}) =>
       /\ ret.ok
       /\ Len(ret.value) = IF call.winner # None
                           THEN (IF Called.format = "BEST_OF_7" THEN 20 ELSE 6)
                           ELSE (IF Called.format = "BEST_OF_7" THEN 40 ELSE 12)

\* C3 amended: with no games_played, outcomes(winner=w) has 35 outcomes for
\* BEST_OF_7 and 10 for BEST_OF_5, and outcomes() has 70 and 20; 20 and 6
\* are the numbers of outcomes of full length, those that
\* outcomes(winner=w, games_played=7) and outcomes(winner=w, games_played=5)
\* give.
C3_ThirtyFiveAndTen ==
    (pc = "called" /\ Called.format \in {"BEST_OF_7", "BEST_OF_5"}) =>
       /\ call.games_played = <<>> =>
             /\ ret.ok
             /\ Len(ret.value) = IF call.winner # None
                                 THEN (IF Called.format = "BEST_OF_7" THEN 35 ELSE 10)
                                 ELSE (IF Called.format = "BEST_OF_7" THEN 70 ELSE 20)
       /\ (call.games_played = <<Called.best_of>> /\ call.winner # None) =>
             /\ ret.ok
             /\ Len(ret.value) = IF Called.format = "BEST_OF_7" THEN 20 ELSE 6

\* C3 witness: outcomes() with no argument on a BEST_OF_7 enumerator gave 70
\* outcomes
C3_Witness ==
    /\ pc = "called" /\ call.winner = None /\ call.games_played = <<>>
    /\ Called.format = "BEST_OF_7" /\ ret.ok /\ Len(ret.value) = 70

C8_Choose ==
    pc = "chose" =>
       /\ season < 1983 => ~chosen.ok
       /\ season >= 1983 =>
             /\ chosen.ok
             /\ chosen.value = "BEST_OF_5" <=>
                   (playoff_round = ConferenceQuarters /\ season < 2002)
             /\ chosen.value = "FINALS_PRE_2013" <=>
                   (playoff_round = Finals /\ season < 2013)
             /\ chosen.value = "BEST_OF_7" <=>
                   ~(playoff_round = ConferenceQuarters /\ season < 2002)
                   /\ ~(playoff_round = Finals /\ season < 2013)
       /\ (season = 1990 /\ playoff_round = ConferenceQuarters) => chosen = Return("BEST_OF_5")
       /\ (season = 2010 /\ playoff_round = Finals) => chosen = Return("FINALS_PRE_2013")
       /\ (season = 2015 /\ playoff_round = Finals) => chosen = Return("BEST_OF_7")
       /\ season = 1975 => ~chosen.ok

\* C8 witness: the finals of 2012, the last season of the 2-3-2 format
C8_Witness ==
    /\ pc = "chose" /\ season = 2012 /\ playoff_round = Finals
    /\ chosen = Return("FINALS_PRE_2013")

\* the matchup groups of the season's rows
Groups == {matchups[i].matchup_id : i \in DOMAIN matchups}

\* the date of the first game of the series of an extracted row
FirstDate(series) ==
    min_date(SelectSeq(matchups, LAMBDA row : row.game_id = series.game_ids[1]))

\* the number of extracted rows of a round
InRound(r) == Cardinality({i \in DOMAIN df.value : df.value[i].playoff_round = r})

\* C5: a season of exactly 15 series is extracted with the series in the
\* order of their first games, ranks 0-7 conference quarterfinals, 8-11
\* conference semifinals, 12-13 conference finals and 14 the finals: 8, 4, 2
\* and 1 series, and no earlier series in a later round.
C5_RoundsByRank ==
    (pc = "extracted" /\ Cardinality(Groups) = 15) =>
       /\ df.ok
       /\ Len(df.value) = 15
       /\ \A i \in DOMAIN df.value :
             df.value[i].playoff_round =
                IF i - 1 <= 7 THEN ConferenceQuarters
                ELSE IF i - 1 <= 11 THEN ConferenceSemis
                ELSE IF i - 1 <= 13 THEN ConferenceFinals
                ELSE Finals
       /\ \A i, j \in DOMAIN df.value :
             i < j => FirstDate(df.value[i]) <= FirstDate(df.value[j])
       /\ \A i, j \in DOMAIN df.value :
             FirstDate(df.value[i]) < FirstDate(df.value[j])
                => df.value[i].playoff_round <= df.value[j].playoff_round
       /\ InRound(ConferenceQuarters) = 8 /\ InRound(ConferenceSemis) = 4
       /\ InRound(ConferenceFinals) = 2 /\ InRound(Finals) = 1
       /\ {df.value[i].game_ids : i \in DOMAIN df.value}
             = {[k \in DOMAIN group_rows(matchups, id) |-> group_rows(matchups, id)[k].game_id] :
                   id \in Groups}

\* C5 witness: 15 series, the one that starts last given as the first group
\* and extracted as the finals
C5_Witness ==
    /\ pc = "extracted" /\ Cardinality(Groups) = 15 /\ df.ok
    /\ df.value[15].playoff_round = Finals
    /\ df.value[15].series_hca = 1
    /\ df.value[1].series_hca = 4

\* C6 as claimed: a season whose rows form any number of groups other than
\* 15 is not extracted: the call fails.
C6_FailsUnlessFifteen ==
    (pc = "extracted" /\ Cardinality(Groups) # 15) => ~df.ok

\* a group with a decisive winner: one team has 3 or 4 wins, more than the
\* other, and wins the last game
Decisive(g) ==
    LET last == g[Len(g)].winner
        won == Cardinality({i \in DOMAIN g : g[i].winner = last})
    IN  won \in {3, 4} /\ won > Len(g) - won

\* C7 as claimed: when a group has no decisive winner the call fails and no
\* row is given; stated for the seasons of exactly 15 groups, which do not
\* fail for their number of groups.
C7_FailsOnIndecisiveGroup ==
    (/\ pc = "extracted" /\ Cardinality(Groups) = 15
     /\ \E id \in Groups : ~Decisive(group_rows(matchups, id)))
       => ~df.ok

\* the position of the last occurrence of c in s, 0 if there is none
LastOf(s, c) ==
    LET at == {i \in DOMAIN s : s[i] = c}
    IN  IF at = {} THEN 0 ELSE CHOOSE i \in at : \A j \in at : j <= i

\* C11: the string stored for an accepted raw string is the prefix of the
\* normalised string that ends at the last occurrence of the majority
\* symbol; what is removed are symbols of the other side only, and the
\* winner has as many wins after the cut as before.
C11_PrefixToLastWin ==
    (pc = "constructed" /\ obj.ok) =>
       LET s == convert_string(raw)
           k == LastOf(s, Majority(s))
       IN  /\ k > 0
           /\ obj.value = SubSeq(s, 1, k)
           /\ \A i \in (k + 1)..Len(s) : s[i] = Minority(s)
           /\ count(obj.value, Majority(s)) = count(s, Majority(s))

\* C11 witness: an accepted raw string that lost two games at its end, with
\* a win of the winner after a loss
C11_Witness ==
    /\ pc = "constructed" /\ obj.ok
    /\ Len(obj.value) = Len(raw) - 2
    /\ \E i \in DOMAIN obj.value : i < Len(obj.value) /\ obj.value[i] # obj.value[Len(obj.value)]

\* C12 as claimed: outcomes() with no winner gives one sorted list: no
\* outcome is less than the one before it, and no outcome has fewer games
\* than the one before it.
C12_UnionSorted ==
    (pc = "called" /\ call.winner = None /\ ret.ok) =>
       \A i \in 1..(Len(ret.value) - 1) :
          /\ ~truthy(lt(ret.value[i + 1], ret.value[i]))
          /\ games_played(ret.value[i]) <= games_played(ret.value[i + 1])

\* C13: outcomes(winner=w) holds no outcome twice, is in ascending order of
\* __lt__, and each of its outcomes is won by w with exactly need_to_win
\* wins.
C13_WinnerListSortedDistinct ==
    (pc = "called" /\ call.winner # None /\ ret.ok) =>
       /\ \A i, j \in DOMAIN ret.value : i # j => ret.value[i] # ret.value[j]
       /\ \A i \in 1..(Len(ret.value) - 1) : truthy(lt(ret.value[i], ret.value[i + 1]))
       /\ \A i \in DOMAIN ret.value :
             /\ winner(ret.value[i]) = call.winner
             /\ count(ret.value[i], TeamTypeValue(call.winner)) = need_to_win(Called)

\* C13 witness: the 35 outcomes that OTHER wins in a best-of-7 format
C13_Witness ==
    /\ pc = "called" /\ call.winner = "OTHER" /\ call.games_played = <<>>
    /\ ret.ok /\ Len(ret.value) = 35
    /\ ret.value[1] = <<Other, Other, Other, Other>>

\* what the last call gives when made again without games_played
Unfiltered == outcomes(Called, call.winner, <<>>).got

\* C14 as claimed: a call with a games_played value fails with "invalid
\* number of games" when the value is outside need_to_win..best_of, 0 and
\* negative values included, and otherwise gives the outcomes of the
\* unfiltered result that have that many games, in the same order.
C14_GamesPlayedChecked ==
    (pc = "called" /\ call.games_played # <<>>) =>
       LET g == call.games_played[1]
       IN  IF g < need_to_win(Called) \/ g > Called.best_of
           THEN ~ret.ok /\ ret.error = "invalid number of games"
           ELSE /\ ret.ok
                /\ ret.value = SelectSeq(Unfiltered.value, LAMBDA o : Len(o) = g)

\* C15: of a < b, a == b and b < a exactly one holds, and a == b holds iff
\* the two strings are equal; the order is transitive; the outcome with
\* fewer games is the lesser one; with equally many games the first position
\* where the strings differ decides, '1' before '2'.
C15_StrictTotalOrder ==
    pc = "compared" =>
       LET a == call.self
           b == call.other
       IN  /\ Cardinality({x \in {"lt", "eq", "gt"} :
                             \/ x = "lt" /\ truthy(ret.lt)
                             \/ x = "eq" /\ ret.eq
                             \/ x = "gt" /\ truthy(ret.gt)}) = 1
           /\ ret.eq <=> (\A i \in 1..7 : (i \in DOMAIN a <=> i \in DOMAIN b)
                                          /\ (i \in DOMAIN a => a[i] = b[i]))
           /\ truthy(ret.lt) => \A c \in Objects : truthy(lt(b, c)) => truthy(lt(a, c))
           /\ Len(a) < Len(b) => truthy(ret.lt)
           /\ (Len(a) = Len(b) /\ a # b) =>
                 LET first == CHOOSE i \in DOMAIN a :
                                 a[i] # b[i] /\ \A j \in 1..(i - 1) : a[j] = b[j]
                 IN  truthy(ret.lt) <=> (a[first] = SHCA /\ b[first] = Other)

\* C15 witness: two different outcomes of 6 games with the same first game,
\* the first one the lesser
C15_Witness ==
    /\ pc = "compared" /\ truthy(ret.lt) /\ ~ret.eq /\ ~truthy(ret.gt)
    /\ Len(call.self) = 6 /\ Len(call.other) = 6
    /\ call.self[1] = call.other[1]

\* C16 as claimed: a comparison a < b always ends with a defined value, True
\* or False, and for two objects with the same string that value is False.
C16_EqualCaseDefined ==
    pc = "compared" =>
       /\ ret.lt \in {"True", "False"}
       /\ ret.eq => ret.lt = "False"

\* the game records supplied, and the pairs of teams that meet in them
Rows == {matchups[i] : i \in DOMAIN matchups}

Pairs == {{r.team_abbr_h, r.team_abbr_r} : r \in Rows}

GamesOf(T) == {r \in Rows : {r.team_abbr_h, r.team_abbr_r} = T}

\* the rows of S from the earliest date to the latest
Chrono(S) ==
    [i \in 1..Cardinality(S) |->
        CHOOSE x \in S : Cardinality({y \in S : y.date < x.date}) = i - 1]

\* the summary row s is the one of the games g, given in the order of their
\* dates
SummaryOf(s, g) ==
    LET last == g[Len(g)].winner
        won == Cardinality({k \in DOMAIN g : g[k].winner = last})
    IN  /\ s.series_hca = g[1].team_abbr_h
        /\ s.series_non_hca = g[1].team_abbr_r
        /\ s.series_winner = last
        /\ s.games_played = Len(g)
        /\ s.best_of = IF won = 3 THEN 5 ELSE 7
        /\ s.game_home_teams = [k \in DOMAIN g |-> g[k].team_abbr_h]
        /\ s.game_winners = [k \in DOMAIN g |-> g[k].winner]
        /\ s.game_ids = [k \in DOMAIN g |-> g[k].game_id]

\* C17: whatever the order of the supplied records, each pairing has one
\* summary row, made from its games in the order of their dates: home and
\* away team of the first game, winner of the last game, number of games,
\* best_of 5 for 3 wins of the winner and 7 otherwise, and the home teams,
\* winners and game ids game by game.
C17_SummaryByDate ==
    pc = "extracted" =>
       /\ df.ok
       /\ Len(df.value) = Cardinality(Pairs)
       /\ \A T \in Pairs :
             \E i \in DOMAIN df.value : SummaryOf(df.value[i], Chrono(GamesOf(T)))

\* C17 witness: three games of one pairing supplied with the last game first,
\* all won by the same team, the first and the last game at different homes
C17_Witness ==
    /\ pc = "extracted" /\ df.ok /\ Len(df.value) = 1
    /\ Len(matchups) = 3 /\ matchups[1].date > matchups[2].date
    /\ matchups[1].date > matchups[3].date
    /\ df.value[1].best_of = 5
    /\ df.value[1].series_hca # matchups[1].team_abbr_h

\* the records r1 and r2 are games of one summary row
SameGroup(r1, r2) ==
    \E i \in DOMAIN df.value :
       LET ids == {df.value[i].game_ids[k] : k \in DOMAIN df.value[i].game_ids}
       IN  r1.game_id \in ids /\ r2.game_id \in ids

\* C18: two records of a season get the same matchup identifier iff the same
\* two teams meet in them, whichever is at home; so the games of a pairing
\* are in one group and games of different pairings are in different groups.
C18_IdOfUnorderedPair ==
    pc = "extracted" =>
       \A r1, r2 \in Rows :
          LET same == {r1.team_abbr_h, r1.team_abbr_r} = {r2.team_abbr_h, r2.team_abbr_r}
          IN  /\ (create_matchup_id(r1) = create_matchup_id(r2)) <=> same
              /\ df.ok
              /\ SameGroup(r1, r2) <=> same

\* C18 witness: two games of one pairing, one at each team's home, and a game
\* of the other pairing in between: two groups
C18_Witness ==
    /\ pc = "extracted" /\ df.ok /\ Len(df.value) = 2
    /\ \E r1, r2, r3 \in Rows :
          /\ r1.team_abbr_h = r2.team_abbr_r /\ r1.team_abbr_r = r2.team_abbr_h
          /\ r1.date < r3.date /\ r3.date < r2.date
          /\ SameGroup(r1, r2) /\ ~SameGroup(r1, r3)

\* the character a spelling of a role stands for; any other character is
\* left as it is
Role(c) ==
    IF c \in {"1", "y", "Y", "h", "H"} THEN SHCA
    ELSE IF c \in {"2", "n", "N", "r", "R"} THEN Other
    ELSE c

\* C19: parse gives the format whose template the string is, each character
\* read as the role it spells ('1', 'Y', 'H' and '2', 'N', 'R', in upper or
\* lower case); it fails when the string has neither 5 nor 7 characters and
\* when the string read this way is none of the three templates.
C19_Parse ==
    pc = "parsed" =>
       LET s == [i \in DOMAIN raw |-> Role(raw[i])]
       IN  /\ \A name \in SeriesFormat :
                 s = SeriesFormatValue(name) => chosen = Return(name)
           /\ Len(raw) \notin {5, 7} => ~chosen.ok
           /\ (\A name \in SeriesFormat : s # SeriesFormatValue(name)) => ~chosen.ok

\* C19 witness: the 2-3-2 template written in lower-case h and r is parsed
\* as FINALS_PRE_2013
C19_Witness ==
    /\ pc = "parsed"
    /\ raw = <<"h", "h", "r", "r", "r", "h", "h">>
    /\ chosen = Return("FINALS_PRE_2013")

\* C20 as claimed: what convert_string gives holds no character that is no
\* role; a string with such a character gives no value.
C20_NoUnrecognisedSymbol ==
    pc = "converted" => \A i \in DOMAIN ret : ret[i] \in {SHCA, Other}

\* C21: convert_string of what convert_string gave is the same string, and
\* each of 1, Y, H gives '1' and each of 2, N, R gives '2', in upper or lower
\* case.
C21_ConvertIdempotent ==
    pc = "converted" =>
       /\ convert_string(ret) = ret
       /\ Len(ret) = Len(raw)
       /\ \A i \in DOMAIN raw :
             /\ raw[i] \in {"1", "y", "Y", "h", "H"} => ret[i] = SHCA
             /\ raw[i] \in {"2", "n", "N", "r", "R"} => ret[i] = Other

\* C21 witness: a string in lower-case h and r, converted to '1' and '2'
C21_Witness ==
    /\ pc = "converted"
    /\ raw = <<"h", "r", "r", "h">>
    /\ ret = <<SHCA, Other, Other, SHCA>>

\* the key of the criteria w and g, written out; g is a number of one digit
KeyText(w, g) ==
    (IF w = "SHCA" THEN <<"S", "H", "C", "A">>
     ELSE IF w = "OTHER" THEN <<"O", "T", "H", "E", "R">> ELSE <<>>)
    \o (IF w # None /\ g # <<>> THEN <<" ">> ELSE <<>>)
    \o (IF g # <<>>
        THEN <<"i", "n", " ", (<<"0", "1", "2", "3", "4", "5", "6", "7", "8", "9">>)[g[1] + 1]>>
        ELSE <<>>)

\* C22 as claimed: key_from gives the key of the criteria that are supplied,
\* and fails, for missing criteria, exactly when none is supplied; the key
\* of an object is key_from of its winner and its games_played.
C22_KeyFromSupplied ==
    pc = "key_from" =>
       LET w == call.winner
           g == call.games_played
       IN  /\ (w = None /\ g = <<>>)
                 <=> (~ret.ok /\ ret.error = "must pass either winner or games played")
           /\ (w # None \/ g # <<>>) =>
                 /\ ret.ok
                 /\ (g = <<>> \/ g[1] \in 0..9) => ret.value = KeyText(w, g)
           /\ (w = winner(call.self) /\ g = <<games_played(call.self)>>)
                 => ret = Return(key(call.self))

\* C22 amended: key_from fails for its number of games when games_played is
\* supplied, is not 0 and is not one of 3..7; a games_played of 0 counts as
\* not supplied.  Otherwise it gives the key of the criteria that are
\* supplied, and fails for missing criteria exactly when none is supplied.
\* The key of an object is key_from of its winner and its games_played.
C22_KeyFrom ==
    pc = "key_from" =>
       LET w == call.winner
           g == IF call.games_played = <<0>> THEN <<>> ELSE call.games_played
       IN  /\ (g # <<>> /\ g[1] \notin 3..7)
                 <=> (~ret.ok /\ ret.error = "invalid number of games played")
           /\ (w = None /\ g = <<>>)
                 <=> (~ret.ok /\ ret.error = "must pass either winner or games played")
           /\ ((w # None \/ g # <<>>) /\ (g = <<>> \/ g[1] \in 3..7))
                 => ret = Return(KeyText(w, g))
           /\ (w = winner(call.self) /\ g = <<games_played(call.self)>>)
                 => ret = Return(key(call.self))

\* C22 witness: key_from of the winner and the games of an object that OTHER
\* wins in 6 games is its key, 'OTHER in 6'
C22_Witness ==
    /\ pc = "key_from"
    /\ call.winner = "OTHER" /\ call.games_played = <<6>>
    /\ winner(call.self) = "OTHER" /\ games_played(call.self) = 6
    /\ ret = Return(<<"O", "T", "H", "E", "R", " ", "i", "n", " ", "6">>)

\* the criteria w and g fit the object o
Fits(o, w, g) ==
    /\ w = None \/ w = winner(o)
    /\ g = <<>> \/ g[1] = games_played(o)

\* C23 as claimed: with a winner or a games_played supplied, keys_match on
\* the key of an object is true iff the supplied winner is the object's and
\* the supplied games_played is the object's.
C23_KeysMatchCriteria ==
    (pc = "keys_match" /\ (call.winner # None \/ call.games_played # <<>>)) =>
       /\ ret.ok
       /\ ret.value = "True" <=> Fits(call.self, call.winner, call.games_played)

\* C23 amended: keys_match fails as key_from does, for a games_played that
\* is not 0 and not one of 3..7 and when neither a winner nor a games_played
\* other than 0 is supplied; a games_played of 0 counts as not supplied.
\* Otherwise it is true iff the key of the criteria is a part of the
\* object's key, which is the case iff the supplied winner is the object's
\* and the supplied games_played is the object's.
C23_KeysMatch ==
    pc = "keys_match" =>
       LET w == call.winner
           g == IF call.games_played = <<0>> THEN <<>> ELSE call.games_played
       IN  /\ ~ret.ok <=> ((g # <<>> /\ g[1] \notin 3..7) \/ (w = None /\ g = <<>>))
           /\ ret.ok =>
                 /\ ret.value \in {"True", "False"}
                 /\ ret.value = "True" <=> contains(key(call.self), KeyText(w, g))
                 /\ ret.value = "True" <=> Fits(call.self, w, g)

\* C23 witness: the key of an object that SHCA wins in 5 games matches the
\* games_played 5 alone and does not match the winner OTHER
C23_Witness ==
    /\ pc = "keys_match" /\ ret.ok
    /\ winner(call.self) = "SHCA" /\ games_played(call.self) = 5
    /\ \/ call.winner = None /\ call.games_played = <<5>> /\ ret.value = "True"
       \/ call.winner = "OTHER" /\ call.games_played = <<5>> /\ ret.value = "False"

\* the winners a call outcomes(winner=w) looks up
Looked(w) == IF w = None THEN TeamTypeMembers ELSE {w}

\* memo b holds all of memo a, entry for entry
Extends(a, b) ==
    /\ DOMAIN a \subseteq DOMAIN b
    /\ \A k \in DOMAIN a : b[k] = a[k]

\* every call gives on enumerator b what it gives on enumerator a
SameAnswers(a, b) ==
    \/ a = b
    \/ \A w \in WinnerArgs : \A g \in GamesArgs :
          outcomes(b, w, g).got = outcomes(a, w, g).got

\* C24 as claimed: a call of outcomes() that fails leaves the memo of every
\* enumerator exactly as it was before the call.
C24_FailureKeepsMemo ==
    [][(pc' = "called" /\ ~ret'.ok) => enum' = enum]_vars

\* C24 amended: a call of outcomes() that fails for its number of games has
\* first looked up its winners, so the memo of its enumerator holds the
\* entries it had, unchanged, and the complete entries of the winners of the
\* call; the other enumerators are as they were, and every later call gives
\* what it would have given without the failed call.
C24_FailureOnlyFillsMemo ==
    [][(pc' = "called" /\ ~ret'.ok) =>
          LET i == call'.instance
          IN  /\ ret'.error = "invalid number of games"
              /\ \A j \in Instances \ {i} : enum'[j] = enum[j]
              /\ enum'[i].format = enum[i].format
              /\ enum'[i].best_of = enum[i].best_of
              /\ Extends(enum[i].outcomes, enum'[i].outcomes)
              /\ DOMAIN enum'[i].outcomes =
                    DOMAIN enum[i].outcomes \cup Looked(call'.winner)
              /\ SameAnswers(enum[i], enum'[i])]_vars

\* C24 witness: a call for the winner SHCA and 8 games has failed and the
\* memo of its enumerator holds the entry of SHCA, the only one
C24_Witness ==
    /\ pc = "called" /\ ~ret.ok
    /\ call.winner = "SHCA" /\ call.games_played = <<8>>
    /\ DOMAIN Called.outcomes = {"SHCA"}
    /\ Len(Called.outcomes["SHCA"]) > 0

\* the memo of enumerator e is coherent: its keys are TeamType members and
\* each entry is the list _outcomes_for_winner gives for the key and the
\* format of e
Coherent(e) ==
    /\ DOMAIN e.outcomes \subseteq TeamTypeMembers
    /\ \A k \in DOMAIN e.outcomes :
          Return(e.outcomes[k]) = OutcomesForWinner[Len(SeriesFormatValue(e.format))][k]

\* C25: over every call of outcomes(), the memo of each enumerator keeps its
\* entries unchanged and stays coherent (keys among SHCA and OTHER, each
\* entry the list computed for its winner and the format), a call with a
\* winner adds at most the entry of that winner, the call gives what it
\* gives on an enumerator with an empty memo, and the memo of the other
\* enumerator is not altered.
C25_MemoAppendOnlyCoherent ==
    [][pc' = "called" =>
          LET i == call'.instance
          IN  /\ \A j \in Instances :
                    /\ Coherent(enum'[j])
                    /\ Extends(enum[j].outcomes, enum'[j].outcomes)
                    /\ enum'[j].format = enum[j].format
              /\ \A j \in Instances \ {i} : enum'[j] = enum[j]
              /\ DOMAIN enum'[i].outcomes \subseteq
                    DOMAIN enum[i].outcomes \cup Looked(call'.winner)
              /\ ret' = outcomes(SeriesOutcomes(enum[i].format),
                                 call'.winner, call'.games_played).got]_vars

\* C25 witness: after calls on both enumerators the one just called holds
\* the entries of both winners and the other enumerator only that of OTHER,
\* and the call read its entry from the memo
C25_Witness ==
    /\ pc = "called" /\ ret.ok
    /\ call.winner = "SHCA" /\ call.games_played = <<>>
    /\ DOMAIN Called.outcomes = TeamTypeMembers
    /\ ret.value = Called.outcomes["SHCA"]
    /\ \E j \in Instances \ {call.instance} : DOMAIN enum[j].outcomes = {"OTHER"}

\* what the call of caller c gives when it is made alone on a new enumerator
\* of the format
Sequential(c) ==
    outcomes(SeriesOutcomes(enum[1].format), call[c].winner, call[c].games_played).got

\* the statements of outcomes() that read or write the memo, or stand
\* between its test and its write
AtMemo(c) == call[c].at \in {"read", "compute", "store"}

\* every finished call gave what it gives alone, and the memo is coherent
SharedAnswers ==
    /\ Coherent(enum[1])
    /\ \A c \in Callers : call[c].at = "done" => ret[c] = Sequential(c)

\* C26 as claimed: the memo of a shared enumerator is protected, no two
\* callers are at its memo at a time, and under every interleaving each call
\* gives the list it gives alone and the memo holds no partial or wrong
\* entry.
C26_MemoProtected ==
    pc = "shared" =>
       /\ \A c, d \in Callers : (AtMemo(c) /\ AtMemo(d)) => c = d
       /\ SharedAnswers

\* C26 amended: the memo of a shared enumerator is not protected, and two
\* callers that both find a winner missing both compute and store its list;
\* under every interleaving of the test, compute and store statements each
\* call gives the complete list it gives alone and the memo holds no partial
\* or wrong entry.
C26_SharedMemoAnswers == pc = "shared" => SharedAnswers

\* C26 witness: a caller has finished a call for a winner and got its list
\* while the other caller, which found the same winner missing, stands
\* before its own store of the list the memo holds by now
C26_Witness ==
    /\ pc = "shared"
    /\ \E c, d \in Callers :
          /\ call[c].at = "done" /\ ret[c].ok /\ Len(ret[c].value) > 0
          /\ call[d].at = "store"
          /\ call[c].winner = Head(call[d].todo)
          /\ Head(call[d].todo) \in DOMAIN enum[1].outcomes

\* the arrangements _outcomes_for_winner generates for the winner w on the
\* enumerator just called
Arrangements(w) == permutations(symbols(Called, w))

\* the elements of a list
Elements(s) == {s[i] : i \in DOMAIN s}

\* C27 as claimed: every arrangement generated for a winner ends with the
\* winning symbol, and the Outcome constructed from it has the arrangement
\* itself as its string.
C27_TruncationNoOp ==
    (pc = "called" /\ ret.ok) =>
       \A w \in Looked(call.winner) : \A p \in Arrangements(w) :
          /\ p[Len(p)] = TeamTypeValue(w)
          /\ SeriesOutcome(p) = Return(p)

\* C27 amended: the arrangements generated for a winner are those of all
\* best_of symbols, and some do not end with the winning symbol; the Outcome
\* constructed from an arrangement is the arrangement cut after the last win
\* of the winner, so it is the arrangement itself iff the arrangement ends
\* with the winning symbol, and what is cut off are losing symbols only.
\* Distinct arrangements give distinct Outcomes, which are the entry of the
\* memo.
C27_TruncationCutsLosses ==
    (pc = "called" /\ ret.ok) =>
       \A w \in Looked(call.winner) :
          Once({<<p, SeriesOutcome(p)>> : p \in Arrangements(w)}, LAMBDA built :
             /\ \E b \in built : b[1][Len(b[1])] # TeamTypeValue(w)
             /\ \A b \in built :
                   /\ Len(b[1]) = Called.best_of
                   /\ b[2].ok
                   /\ b[2].value = SubSeq(b[1], 1, LastOf(b[1], TeamTypeValue(w)))
                   /\ b[2].value = b[1] <=> b[1][Len(b[1])] = TeamTypeValue(w)
             /\ Cardinality({b[2] : b \in built}) = Cardinality(built)
             /\ Elements(Called.outcomes[w]) = {b[2].value : b \in built})

\* C27 witness: the list of a seven-game format for the winner SHCA holds the
\* sweep 1111, cut from the arrangement 1111222
C27_Witness ==
    /\ pc = "called" /\ ret.ok /\ call.winner = "SHCA" /\ Called.best_of = 7
    /\ <<SHCA, SHCA, SHCA, SHCA, Other, Other, Other>> \in Arrangements("SHCA")
    /\ <<SHCA, SHCA, SHCA, SHCA>> \in Elements(Called.outcomes["SHCA"])

\* the string o with the two symbols exchanged
Swapped(o) == [i \in DOMAIN o |-> IF o[i] = SHCA THEN Other ELSE SHCA]

\* the strings of all outcomes of a new enumerator of the format f
Enumerated(f) == Elements(outcomes(SeriesOutcomes(f), None, <<>>).got.value)

\* C28: the enumerator and the constructor agree.  Completeness: the string
\* of every object the constructor builds from a raw string is among the
\* outcomes of the enumerator of each format whose length is the best_of of
\* the object.  Soundness: every outcome in the memo of an enumerator is a
\* string the constructor returns unchanged, with the winner it is stored
\* for and the best_of of the format, and the call returns such outcomes
\* only.  Enumerators of formats of equal length hold equal entries, and
\* the entry of OTHER is that of SHCA with the two symbols exchanged.
C28_EnumeratorMatchesCodec ==
    /\ (pc = "constructed" /\ obj.ok) =>
          \A f \in SeriesFormat :
             Len(SeriesFormatValue(f)) = best_of(obj.value) => obj.value \in Enumerated(f)
    /\ pc = "called" =>
          /\ \A e \in Instances : \A k \in DOMAIN enum[e].outcomes :
                \A o \in Elements(enum[e].outcomes[k]) :
                   /\ o \in RawInputs
                   /\ SeriesOutcome(o) = Return(o)
                   /\ winner(o) = k
                   /\ best_of(o) = Len(SeriesFormatValue(enum[e].format))
          /\ ret.ok => Elements(ret.value) \subseteq
                          UNION {Elements(Called.outcomes[k]) : k \in DOMAIN Called.outcomes}
          /\ \A e, d \in Instances : \A k \in DOMAIN enum[e].outcomes \cap DOMAIN enum[d].outcomes :
                enum[e].best_of = enum[d].best_of => enum[e].outcomes[k] = enum[d].outcomes[k]
          /\ \A e \in Instances :
                DOMAIN enum[e].outcomes = TeamTypeMembers =>
                   Elements(enum[e].outcomes["OTHER"]) =
                      {Swapped(o) : o \in Elements(enum[e].outcomes["SHCA"])}

\* C28 witness: two enumerators of the two seven-game formats both hold the
\* entries of both winners, 35 outcomes each
C28_Witness ==
    /\ pc = "called"
    /\ enum[1].format = "BEST_OF_7" /\ enum[2].format = "FINALS_PRE_2013"
    /\ \A e \in Instances :
          /\ DOMAIN enum[e].outcomes = TeamTypeMembers
          /\ \A k \in TeamTypeMembers : Cardinality(Elements(enum[e].outcomes[k])) = 35

\* the number of ways to choose k of n things
Binomial(n, k) == Cardinality({S \in SUBSET (1..n) : Cardinality(S) = k})

\* the sum of f over the integers a..b
RECURSIVE SumOver(_, _, _)
SumOver(f(_), a, b) == IF a > b THEN 0 ELSE f(a) + SumOver(f, a + 1, b)

\* C29: a call outcomes(winner=w, games_played=g) with g from need_to_win to
\* best_of gives exactly C(g-1, need_to_win-1) outcomes, all distinct: those
\* of the list of w that have g games.  The list of w has no other outcomes
\* than those of need_to_win to best_of games and none twice, so the lists
\* filtered for each g partition it, and it has 35 outcomes for the two
\* seven-game formats and 10 for the five-game format, never more than 35.
C29_CountsByGames ==
    (pc = "called" /\ call.winner # None) =>
       LET need == need_to_win(Called)
           entry == Called.outcomes[call.winner]
           g == call.games_played
       IN  /\ (g # <<>> /\ g[1] >= need /\ g[1] <= Called.best_of) =>
                 /\ ret.ok
                 /\ Len(ret.value) = Binomial(g[1] - 1, need - 1)
                 /\ Cardinality(Elements(ret.value)) = Len(ret.value)
                 /\ Elements(ret.value) = {o \in Elements(entry) : games_played(o) = g[1]}
           /\ Cardinality(Elements(entry)) = Len(entry)
           /\ \A o \in Elements(entry) : games_played(o) \in need..Called.best_of
           /\ Len(entry) = SumOver(LAMBDA n : Binomial(n - 1, need - 1), need, Called.best_of)
           /\ Len(entry) = (IF Called.best_of = 7 THEN 35 ELSE 10)
           /\ Len(entry) <= 35

\* C29 witness: outcomes(winner=OTHER, games_played=6) on a seven-game
\* enumerator gave C(5,3) = 10 outcomes
C29_Witness ==
    /\ pc = "called" /\ ret.ok
    /\ call.winner = "OTHER" /\ call.games_played = <<6>> /\ Called.best_of = 7
    /\ Len(ret.value) = 10

\* the games of the group that team t wins
WinsOf(t) == Cardinality({j \in DOMAIN matchups : matchups[j].winner = t})

\* one team of the group has exactly 3 or 4 wins, wins the last game, and
\* the other team has fewer wins
DecidedGroup ==
    \E t \in {1, 2} :
       /\ WinsOf(t) \in {3, 4}
       /\ matchups[Len(matchups)].winner = t
       /\ WinsOf(3 - t) < WinsOf(t)

\* C30: for a group in which one team has exactly 3 or 4 wins, wins the last
\* game and the other team has fewer wins, the outcome of the series exists,
\* its winner is SHCA iff the series_winner of the summary is its
\* series_hca, and its games_played and best_of are those of the summary.
C30_OutcomeAgreesWithSummary ==
    (pc = "outcome" /\ DecidedGroup) =>
       /\ obj.ok
       /\ winner(obj.value) = "SHCA" <=> df.series_winner = df.series_hca
       /\ games_played(obj.value) = df.games_played
       /\ best_of(obj.value) = df.best_of

\* C30 witness: a series of six games that the team without the first home
\* game wins with four wins
C30_Witness ==
    /\ pc = "outcome" /\ DecidedGroup /\ obj.ok
    /\ Len(matchups) = 6
    /\ df.series_winner # df.series_hca
    /\ winner(obj.value) = "OTHER" /\ best_of(obj.value) = 7

====
